---- MODULE Spec2Model ----
(***************************************************************************)
(* Conversion lifecycle of spt-converter: the credit ledger                *)
(* (src/lib/supabase/users.ts), the submit handler                         *)
(* (src/app/api/convert/route.ts), the webhook ingress                     *)
(* (src/app/api/webhooks/n8n/route.ts) and retryConversion                 *)
(* (src/lib/supabase/conversions-client.ts), over one user's rows of       *)
(* user_profiles, conversions and usage_analytics; and the page's          *)
(* conversion store with its polling (src/lib/auth/clear-cookies.ts),      *)
(* which reads those rows through GET /api/status/batch; the               *)
(* useConversionStatus hook (src/hooks/useConversionStatus.ts), which      *)
(* reads them through GET /api/status/[id]; the progress the two status    *)
(* endpoints compute (src/unnamed/part_001, part_002); and                 *)
(* refillUserCredits (src/lib/supabase/users.ts).                          *)
(*                                                                         *)
(* Every handler is cut at its awaits on the database or the network: one  *)
(* action per round trip, with the local code that follows it.             *)
(***************************************************************************)
EXTENDS Integers, Sequences, FiniteSets, Bags, TLC

\* ---------------------------------------------------------------- bounds
NAdjusters == 2      \* concurrent direct callers of updateUserCredits
NSubmit == 2         \* concurrent POST /api/convert requests of the user
NWebhook == 2        \* webhook deliveries sent by the processor
NRetry == 2          \* retryConversion calls of the user
NStart == 2          \* startPolling calls of the page
NRefresh == 2        \* refreshActiveConversions calls in flight at once
MaxTicks == 2        \* polling intervals the page is watched for
LongTicks == 14      \* polling intervals a page left open is watched for
MaxCredits == 2      \* largest initial balance
MaxDelta == 2        \* largest |creditDelta| of a direct caller

\* ------------------------------------------------------------- processes
AdjProcs == {<<"adj", i>> : i \in 1..NAdjusters}
SubmitProcs == {<<"sub", i>> : i \in 1..NSubmit}
WebhookProcs == 1..NWebhook
RetryProcs == 1..NRetry
RefreshProcs == 1..NRefresh
Procs == AdjProcs \cup SubmitProcs

\* the conversion created by submit request <<"sub", i>> has id i
ConvIds == 1..NSubmit
ConvOf(s) == s[2]
UnknownId == 0

Null == "null"
Deltas == (-MaxDelta..MaxDelta) \ {0}

VARIABLES
    credits,      \* user_profiles.credits_remaining of the user
    initCredits,  \* the balance the profile was created with
    audit,        \* usage_analytics rows with event_type credit_change
    analytics,    \* the other usage_analytics rows (a bag of [event, conv])
    conv,         \* conversions table: id -> row, or Null before the insert
    call,         \* per process: the frame of its updateUserCredits call
    applied,      \* per process: sum of the deltas its calls have written
    spc,          \* per submit request: position in POST /api/convert
    sresp,        \* per submit request: the response it returned
    wpc,          \* per webhook delivery: position in POST /api/webhooks/n8n
    wpayload,     \* per webhook delivery: the parsed body
    wconv,        \* per webhook delivery: the conversions row it fetched
    wresp,        \* per webhook delivery: the HTTP status it returned
    wreq,         \* per webhook delivery: its signature header, and whether
                  \* its raw body is JSON
    now,          \* the last reading of the server clock (new Date())
    rpc,          \* per retry request: position in retryConversion
    rconv,        \* per retry request: the conversion id it was called with
    rresp,        \* per retry request: how the call ended
    conversions,  \* client store: id -> the status held for it
    requestCache, \* client store: the cached batch results
    activePolling,  \* client store: the ids being polled
    pollingManager, \* client store: the interval timer, as its next due time
    lastBatchFetch, \* client store: time of the last refresh let through
    timeouts,     \* due times of the pending initial-refresh timeouts
    refresh,      \* per refreshActiveConversions call in flight: its frame
    starts,       \* number of startPolling calls made
    clock,        \* the browser's Date.now()
    refill,       \* per caller: the frame of its refillUserCredits call
    conversion,   \* useConversionStatus: the status of its conversion state
    retryAttempts,  \* useConversionStatus: its retryAttempts state
    intervalRef,  \* useConversionStatus: intervalRef.current
    effectPending,  \* useConversionStatus: the polling effect is due to run
    hookFetch,    \* per fetchStatus call of the hook: its frame
    failedAt,     \* Date.now() when a fetchStatus call last failed
    probe         \* a conversions row and what the status endpoints answer

vars == <<credits, initCredits, audit, analytics, conv, call, applied,
          spc, sresp, wpc, wpayload, wconv, wresp, wreq, now, rpc, rconv, rresp,
          conversions, requestCache, activePolling, pollingManager,
          lastBatchFetch, timeouts, refresh, starts, clock, refill,
          conversion, retryAttempts, intervalRef, effectPending, hookFetch,
          failedAt, probe>>

submitVars == <<spc, sresp>>
webhookVars == <<wpc, wpayload, wconv, wresp, wreq>>
retryVars == <<rpc, rconv, rresp>>
serverVars == <<credits, initCredits, audit, analytics, conv, call, applied,
                submitVars, webhookVars, now, retryVars, refill>>
clientVars == <<conversions, requestCache, activePolling, pollingManager,
                lastBatchFetch, timeouts, refresh, starts, clock>>
hookVars == <<conversion, retryAttempts, intervalRef, effectPending,
              hookFetch, failedAt>>

\* ------------------------------------------------------- credit ledger
Max(a, b) == IF a >= b THEN a ELSE b

\* users.ts:73   const newCredits = Math.max(0, currentCredits + creditDelta)
NewCredits(currentCredits, creditDelta) == Max(0, currentCredits + creditDelta)

\* the guard of line 78 left out: the clamp of line 73 is all that remains
InsufficientCreditsUnchecked(currentCredits, creditDelta) == FALSE

\* users.ts:78   if (creditDelta < 0 && currentCredits + creditDelta < 0) throw
InsufficientCredits(currentCredits, creditDelta) ==
    creditDelta < 0 /\ currentCredits + creditDelta < 0

\* the update without its second .eq(): a plain write by id
LockHoldsUnconditional(stored, currentCredits) == TRUE

\* users.ts:92   .eq('credits_remaining', currentCredits) // Optimistic locking
LockHolds(stored, currentCredits) == stored = currentCredits

IdleCall == [pc |-> "idle", delta |-> 0, cur |-> 0, reason |-> Null]

\* users.ts:59-82: read the balance, compute, reject a deduction that would
\* go below zero; otherwise the call is suspended before its update.
UCRead(p, creditDelta, reason) ==
    call' = [call EXCEPT ![p] =
        [pc |-> IF InsufficientCredits(credits, creditDelta)
                THEN "InsufficientCredits" ELSE "write",
         delta |-> creditDelta, cur |-> credits, reason |-> reason]]

\* a lost race that merges the delta into the balance found, instead of failing
UCWriteMerging(p) ==
    /\ call[p].pc = "write"
    /\ credits' = NewCredits(credits, call[p].delta)
    /\ applied' = [applied EXCEPT ![p] = @ + call[p].delta]
    /\ call' = [call EXCEPT ![p].pc = "audit"]
    /\ UNCHANGED <<initCredits, audit, analytics, conv, submitVars, webhookVars, now,
                   retryVars, clientVars,
                   refill, hookVars, probe>>

\* users.ts:84-105: the conditional update. No row matches when the balance
\* is no longer the value read: .single() then reports an error (line 96) or
\* no row (line 101), and either way the call throws.
UCWrite(p) ==
    /\ call[p].pc = "write"
    /\ IF LockHolds(credits, call[p].cur)
       THEN /\ credits' = NewCredits(call[p].cur, call[p].delta)
            /\ applied' = [applied EXCEPT ![p] = @ + call[p].delta]
            /\ call' = [call EXCEPT ![p].pc = "audit"]
       ELSE /\ call' = [call EXCEPT ![p].pc = "ConcurrentModification"]
            /\ UNCHANGED <<credits, applied>>
    /\ UNCHANGED <<initCredits, audit, analytics, conv, submitVars, webhookVars, now,
                   retryVars, clientVars,
                   refill, hookVars, probe>>

\* an audit row that records the balance read as the balance written
AuditRowStale(c) ==
    [credit_delta |-> c.delta, credits_before |-> c.cur,
     credits_after |-> c.cur, reason |-> c.reason]

\* users.ts:113-123: the metadata of the credit_change row
AuditRow(c) ==
    [credit_delta |-> c.delta, credits_before |-> c.cur,
     credits_after |-> NewCredits(c.cur, c.delta), reason |-> c.reason]

\* users.ts:107-129: insert the credit_change row; a failed insert is
\* swallowed and the call still returns the updated profile.
UCAudit(p, logged) ==
    /\ call[p].pc = "audit"
    /\ audit' = IF logged THEN Append(audit, AuditRow(call[p])) ELSE audit
    /\ call' = [call EXCEPT ![p].pc = "ok"]
    /\ UNCHANGED <<credits, applied, initCredits, analytics, conv,
                   submitVars, webhookVars, now,
                   retryVars, clientVars,
                   refill, hookVars, probe>>

CallFailed(p) == call[p].pc \in {"InsufficientCredits", "ConcurrentModification"}
CallReturned(p) == call[p].pc = "ok" \/ CallFailed(p)

\* a direct caller of updateUserCredits(userId, creditDelta, reason)
AdjustStart(p, creditDelta) ==
    /\ p \in AdjProcs
    /\ call[p].pc = "idle"
    /\ UCRead(p, creditDelta, "adjust")
    /\ UNCHANGED <<credits, applied, initCredits, audit, analytics, conv,
                   submitVars, webhookVars, now,
                   retryVars, clientVars,
                   refill, hookVars, probe>>

\* ------------------------------------------------ upgradeUserSubscription
\* subscription_plans.credits_per_month of the plan upgraded to; the column
\* is nullable, 0 stands for NULL and for a plan without credits
PlanCredits == 0..MaxCredits

\* users.ts:189   credits_remaining: plan.credits_per_month || 10
DefaultPlanCredits == 10
PlanCreditsOrDefault(creditsPerMonth) ==
    IF creditsPerMonth = 0 THEN DefaultPlanCredits ELSE creditsPerMonth

\* users.ts:173-198: read the plan, then write the tier and the plan's
\* credits into the profile by id alone; no audit row is inserted
UpgradeUserSubscription(creditsPerMonth) ==
    /\ credits' = PlanCreditsOrDefault(creditsPerMonth)
    /\ UNCHANGED <<initCredits, audit, analytics, conv, call, applied,
                   submitVars, webhookVars, now, retryVars, clientVars,
                   refill, hookVars, probe>>

\* ------------------------------------------------- conversions, analytics
\* a conversions row (the columns the handlers write); timestamps are clock
\* readings, 0 for a NULL column
NoRow == [status |-> "absent", download_url |-> Null, error_message |-> Null,
          started_at |-> 0, completed_at |-> 0]

\* route.ts:93-100 with the column defaults of the conversions table
PendingRow == [status |-> "pending", download_url |-> Null,
               error_message |-> Null, started_at |-> 0, completed_at |-> 0]

\* users.ts:462-480 trackEvent: one usage_analytics row
EventRow(eventType, conversionId) == [event |-> eventType, conv |-> conversionId]
TrackEvent(eventType, conversionId) ==
    analytics (+) SetToBag({EventRow(eventType, conversionId)})

\* users.ts:253-287 checkUserLimits: hasCredits
HasCredits(creditsRemaining) == creditsRemaining > 0

\* ------------------------------------------------ POST /api/convert
\* route.ts:63-74: the limits check; authentication and file validation
\* (lines 17-61, 76-87) are taken to pass.
SubmitCheckLimits(s) ==
    /\ spc[s] = "idle"
    /\ IF HasCredits(credits)
       THEN /\ spc' = [spc EXCEPT ![s] = "checked"]
            /\ UNCHANGED sresp
       ELSE /\ spc' = [spc EXCEPT ![s] = "done"]
            /\ sresp' = [sresp EXCEPT ![s] = "INSUFFICIENT_CREDITS"]
    /\ UNCHANGED <<credits, initCredits, audit, analytics, conv, call, applied,
                   webhookVars, now,
                   retryVars, clientVars,
                   refill, hookVars, probe>>

\* route.ts:92-118: insert the pending row, track conversion_start
SubmitCreate(s) ==
    /\ spc[s] = "checked"
    /\ conv' = [conv EXCEPT ![ConvOf(s)] = PendingRow]
    /\ analytics' = TrackEvent("conversion_start", ConvOf(s))
    /\ spc' = [spc EXCEPT ![s] = "created"]
    /\ UNCHANGED <<credits, initCredits, audit, call, applied, sresp,
                   webhookVars, now,
                   retryVars, clientVars,
                   refill, hookVars, probe>>

\* route.ts:121: updateUserCredits(user.id, -1, 'conversion_started'), up to
\* its conditional update
SubmitDeduct(s) ==
    /\ spc[s] = "created"
    /\ UCRead(s, -1, "conversion_started")
    /\ spc' = [spc EXCEPT ![s] = "deducting"]
    /\ UNCHANGED <<credits, initCredits, audit, analytics, conv, applied, sresp,
                   webhookVars, now,
                   retryVars, clientVars,
                   refill, hookVars, probe>>

\* route.ts:247-269: an updateUserCredits call that threw (line 121 or line
\* 193) lands in the outer catch: 500 INTERNAL_SERVER_ERROR, nothing undone
SubmitCatch(s) ==
    /\ spc[s] \in {"deducting", "refunding"}
    /\ CallFailed(s)
    /\ spc' = [spc EXCEPT ![s] = "done"]
    /\ sresp' = [sresp EXCEPT ![s] = "INTERNAL_SERVER_ERROR"]
    /\ UNCHANGED <<credits, initCredits, audit, analytics, conv, call, applied,
                   webhookVars, now,
                   retryVars, clientVars,
                   refill, hookVars, probe>>

\* the dispatch not held back by a deduction that threw
SubmitDispatchUnpaid(s, accepted) ==
    /\ spc[s] = "deducting"
    /\ CallReturned(s)
    /\ spc' = [spc EXCEPT ![s] = IF accepted THEN "accepted" ELSE "rejected"]
    /\ UNCHANGED <<credits, initCredits, audit, analytics, conv, call, applied,
                   sresp, webhookVars, now,
                   retryVars, clientVars,
                   refill, hookVars, probe>>

\* route.ts:123-155: after the deduction returned, the fetch to the
\* processor; it is accepted (2xx) or fails (network error or non-2xx)
SubmitDispatch(s, accepted) ==
    /\ spc[s] = "deducting"
    /\ call[s].pc = "ok"
    /\ spc' = [spc EXCEPT ![s] = IF accepted THEN "accepted" ELSE "rejected"]
    /\ UNCHANGED <<credits, initCredits, audit, analytics, conv, call, applied,
                   sresp, webhookVars, now,
                   retryVars, clientVars,
                   refill, hookVars, probe>>

\* route.ts:170-177, 236-245: mark the row processing, answer 200
SubmitMarkProcessing(s) ==
    /\ spc[s] = "accepted"
    /\ now' = now + 1
    /\ conv' = [conv EXCEPT ![ConvOf(s)] =
                  [@ EXCEPT !.status = "processing", !.started_at = now']]
    /\ spc' = [spc EXCEPT ![s] = "done"]
    /\ sresp' = [sresp EXCEPT ![s] = "success"]
    /\ UNCHANGED <<credits, initCredits, audit, analytics, call, applied,
                   webhookVars,
                   retryVars, clientVars,
                   refill, hookVars, probe>>

\* route.ts:179-190: the dispatch failed: mark the row failed
SubmitMarkFailed(s) ==
    /\ spc[s] = "rejected"
    /\ now' = now + 1
    /\ conv' = [conv EXCEPT ![ConvOf(s)] =
                  [@ EXCEPT !.status = "failed",
                            !.error_message = "Failed to start processing",
                            !.completed_at = now']]
    /\ spc' = [spc EXCEPT ![s] = "refund"]
    /\ UNCHANGED <<credits, initCredits, audit, analytics, call, applied,
                   sresp, webhookVars,
                   retryVars, clientVars,
                   refill, hookVars, probe>>

\* route.ts:193: updateUserCredits(user.id, +1, 'conversion_failed_refund'),
\* up to its conditional update
SubmitRefund(s) ==
    /\ spc[s] = "refund"
    /\ UCRead(s, 1, "conversion_failed_refund")
    /\ spc' = [spc EXCEPT ![s] = "refunding"]
    /\ UNCHANGED <<credits, initCredits, audit, analytics, conv, applied, sresp,
                   webhookVars, now,
                   retryVars, clientVars,
                   refill, hookVars, probe>>

\* route.ts:195-206: the refund returned: 500 PROCESSING_FAILED
SubmitRefunded(s) ==
    /\ spc[s] = "refunding"
    /\ call[s].pc = "ok"
    /\ spc' = [spc EXCEPT ![s] = "done"]
    /\ sresp' = [sresp EXCEPT ![s] = "PROCESSING_FAILED"]
    /\ UNCHANGED <<credits, initCredits, audit, analytics, conv, call, applied,
                   webhookVars, now,
                   retryVars, clientVars,
                   refill, hookVars, probe>>

\* the processor holds conversion c: its dispatch was answered 2xx
Accepted(c) ==
    spc[<<"sub", c>>] = "accepted" \/ sresp[<<"sub", c>>] = "success"

\* ------------------------------------------------ POST /api/webhooks/n8n
\* route.ts:7: the shared secret of the deployment, and a value that is not it
WebhookSecret == "secret"
WrongSecret == "not the secret"
N8N_WEBHOOK_SECRET == WebhookSecret

\* a payload without a conversionId
MissingId == -1

\* the body of a delivery (N8NWebhookPayload, route.ts:9-21); downloadUrl and
\* error are optional: the processor reports a completion with its download
\* URL and a failure without a message
NoPayload == [conversionId |-> UnknownId, status |-> Null,
              downloadUrl |-> Null, error |-> Null, secret |-> Null]
Completion(c) == [conversionId |-> c, status |-> "completed",
                  downloadUrl |-> "payload url", error |-> Null,
                  secret |-> WebhookSecret]
Failure(c) == [conversionId |-> c, status |-> "failed",
               downloadUrl |-> Null, error |-> Null,
               secret |-> WebhookSecret]
Payloads ==
    {Completion(c) : c \in ConvIds} \cup {Failure(c) : c \in ConvIds}
        \cup {Failure(UnknownId)}

\* what else a sender can put in a JSON body: a status that is not terminal,
\* a missing status, a missing conversionId, another secret
IngressPayloads ==
    Payloads
      \cup {[Completion(c) EXCEPT !.status = "processing"] : c \in ConvIds}
      \cup {[Failure(c) EXCEPT !.status = Null] : c \in ConvIds}
      \cup {[Completion(c) EXCEPT !.secret = WrongSecret] : c \in ConvIds}
      \cup {[Completion(MissingId) EXCEPT !.status = "completed"]}

\* a delivery that has not arrived
NoRequest == [signature |-> <<>>, json |-> FALSE]

\* route.ts:27-30: the hex HMAC-SHA256 of the delivery's raw body, as a
\* sequence of digits
ExpectedSignature == <<"a", "b">>

\* the X-Webhook-Signature header of a delivery; an absent header reads as
\* the empty string (route.ts:42)
SignatureHeaders ==
    {<<>>, ExpectedSignature, <<"a", "c">>, <<"a">>}

\* crypto.timingSafeEqual (route.ts:32-35) throws on buffers of different
\* byte lengths
TimingSafeEqual(a, b) ==
    IF Len(a) # Len(b) THEN "throws" ELSE IF a = b THEN "true" ELSE "false"

\* route.ts:24-36
verifyWebhookSignature(signature, secret) ==
    IF signature = <<>> \/ secret = Null THEN "false"
    ELSE TimingSafeEqual(signature, ExpectedSignature)

\* route.ts:38-81: how the handler leaves before it reads the store: the
\* status it answers, or 0 when the request goes on to the lookup
Rejection(signature, json, payload) ==
    LET verified == IF N8N_WEBHOOK_SECRET # Null
                    THEN verifyWebhookSignature(signature, N8N_WEBHOOK_SECRET)
                    ELSE "true"
    IN  IF verified = "throws" THEN 500
        ELSE IF verified = "false" THEN 401
        ELSE IF ~json THEN 400
        ELSE IF payload.conversionId = MissingId \/ payload.status = Null
        THEN 400
        ELSE IF N8N_WEBHOOK_SECRET # Null /\ payload.secret # N8N_WEBHOOK_SECRET
        THEN 401
        ELSE 0

\* route.ts:101-116: the columns the delivery writes
UpdateData(row, payload, time) ==
    IF payload.status = "completed"
    THEN [row EXCEPT !.status = payload.status, !.completed_at = time,
            !.download_url = IF payload.downloadUrl # Null
                             THEN payload.downloadUrl ELSE "/api/download/id",
            !.error_message = Null]
    ELSE IF payload.status = "failed"
    THEN [row EXCEPT !.status = payload.status, !.completed_at = time,
            !.error_message = IF payload.error # Null THEN payload.error
                              ELSE "Conversion failed during processing",
            !.download_url = Null]
    ELSE [row EXCEPT !.status = payload.status, !.completed_at = time]

\* route.ts:38-99: a delivery arrives with its signature header and a raw body
\* that is JSON (of the payload) or not; it is verified, parsed and validated,
\* then the conversion is looked up, 404 when it does not exist. The processor
\* reports on a conversion of this service only once it holds it.
WebhookReceive(w, signature, json, payload) ==
    /\ wpc[w] = "idle"
    /\ payload.conversionId \in ConvIds => Accepted(payload.conversionId)
    /\ wreq' = [wreq EXCEPT ![w] = [signature |-> signature, json |-> json]]
    /\ wpayload' = [wpayload EXCEPT ![w] = IF json THEN payload ELSE NoPayload]
    /\ IF Rejection(signature, json, payload) # 0
       THEN /\ wpc' = [wpc EXCEPT ![w] = "done"]
            /\ wresp' = [wresp EXCEPT ![w] = Rejection(signature, json, payload)]
            /\ UNCHANGED wconv
       ELSE IF payload.conversionId \in ConvIds
               /\ conv[payload.conversionId].status # "absent"
       THEN /\ wconv' = [wconv EXCEPT ![w] = conv[payload.conversionId]]
            /\ wpc' = [wpc EXCEPT ![w] = "update"]
            /\ UNCHANGED wresp
       ELSE /\ wpc' = [wpc EXCEPT ![w] = "done"]
            /\ wresp' = [wresp EXCEPT ![w] = 404]
            /\ UNCHANGED wconv
    /\ UNCHANGED <<credits, initCredits, audit, analytics, conv, call, applied,
                   submitVars, now, retryVars, clientVars,
                   refill, hookVars, probe>>

\* the update of a delivery that also credits the owner on every failure
WebhookUpdateRefunding(w) ==
    /\ wpc[w] = "update"
    /\ now' = now + 1
    /\ conv' = [conv EXCEPT ![wpayload[w].conversionId] =
                  UpdateData(@, wpayload[w], now')]
    /\ credits' = IF wpayload[w].status = "failed" THEN credits + 1 ELSE credits
    /\ wpc' = [wpc EXCEPT ![w] = "track"]
    /\ UNCHANGED <<initCredits, audit, analytics, call, applied,
                   submitVars, wpayload, wconv, wresp, wreq,
                   retryVars, clientVars,
                   refill, hookVars, probe>>

\* route.ts:101-130: the update of the row, by id alone
WebhookUpdate(w) ==
    /\ wpc[w] = "update"
    /\ now' = now + 1
    /\ conv' = [conv EXCEPT ![wpayload[w].conversionId] =
                  UpdateData(@, wpayload[w], now')]
    /\ wpc' = [wpc EXCEPT ![w] = "track"]
    /\ UNCHANGED <<credits, initCredits, audit, analytics, call, applied,
                   submitVars, wpayload, wconv, wresp, wreq,
                   retryVars, clientVars,
                   refill, hookVars, probe>>

\* the tracking without its try/catch: a failed insert reaches the outer
\* catch and the delivery is answered 500
WebhookTrackUncaught(w, tracked) ==
    /\ wpc[w] = "track"
    /\ analytics' =
         IF tracked
         THEN TrackEvent(IF wpayload[w].status = "completed"
                         THEN "conversion_success" ELSE "conversion_failed",
                         wpayload[w].conversionId)
         ELSE analytics
    /\ wpc' = [wpc EXCEPT ![w] = "done"]
    /\ wresp' = [wresp EXCEPT ![w] = IF tracked THEN 200 ELSE 500]
    /\ UNCHANGED <<credits, initCredits, audit, conv, call, applied,
                   submitVars, wpayload, wconv, wreq, now,
                   retryVars, clientVars,
                   refill, hookVars, probe>>

\* route.ts:132-176: track the completion event (a failure is caught and
\* logged), log the notification, answer 200
WebhookTrack(w, tracked) ==
    /\ wpc[w] = "track"
    /\ analytics' =
         IF tracked
         THEN TrackEvent(IF wpayload[w].status = "completed"
                         THEN "conversion_success" ELSE "conversion_failed",
                         wpayload[w].conversionId)
         ELSE analytics
    /\ wpc' = [wpc EXCEPT ![w] = "done"]
    /\ wresp' = [wresp EXCEPT ![w] = 200]
    /\ UNCHANGED <<credits, initCredits, audit, conv, call, applied,
                   submitVars, wpayload, wconv, wreq, now,
                   retryVars, clientVars,
                   refill, hookVars, probe>>

\* ------------------------------------------------------- retryConversion
\* conversions-client.ts:239-256: read the conversion by id; .single() fails
\* when there is no such row, and only a failed conversion goes on
RetryFetch(r, id) ==
    /\ rpc[r] = "idle"
    /\ rconv' = [rconv EXCEPT ![r] = id]
    /\ IF conv[id].status = "absent"
       THEN /\ rpc' = [rpc EXCEPT ![r] = "done"]
            /\ rresp' = [rresp EXCEPT ![r] = "fetchError"]
       ELSE IF conv[id].status # "failed"
       THEN /\ rpc' = [rpc EXCEPT ![r] = "done"]
            /\ rresp' = [rresp EXCEPT ![r] = "Can only retry failed conversions"]
       ELSE /\ rpc' = [rpc EXCEPT ![r] = "profile"]
            /\ UNCHANGED rresp
    /\ UNCHANGED <<credits, initCredits, audit, analytics, conv, call, applied,
                   submitVars, webhookVars, now, clientVars,
                   refill, hookVars, probe>>

\* a credits check that lets every retry through
RetryCheckCreditsUnchecked(r) ==
    /\ rpc[r] = "profile"
    /\ rpc' = [rpc EXCEPT ![r] = "update"]
    /\ UNCHANGED <<credits, initCredits, audit, analytics, conv, call, applied,
                   submitVars, webhookVars, now, rconv, rresp, clientVars,
                   refill, hookVars, probe>>

\* conversions-client.ts:258-269: read the owner's balance; below 1 the retry
\* is refused
RetryCheckCredits(r) ==
    /\ rpc[r] = "profile"
    /\ IF credits < 1
       THEN /\ rpc' = [rpc EXCEPT ![r] = "done"]
            /\ rresp' = [rresp EXCEPT ![r] =
                            "Insufficient credits to retry conversion"]
       ELSE /\ rpc' = [rpc EXCEPT ![r] = "update"]
            /\ UNCHANGED rresp
    /\ UNCHANGED <<credits, initCredits, audit, analytics, conv, call, applied,
                   submitVars, webhookVars, now, rconv, clientVars,
                   refill, hookVars, probe>>

\* an update that also takes the credit of the retried conversion
RetryUpdateCharging(r) ==
    /\ rpc[r] = "update"
    /\ conv' = [conv EXCEPT ![rconv[r]] =
                  [@ EXCEPT !.status = "pending", !.error_message = Null]]
    /\ credits' = credits - 1
    /\ rpc' = [rpc EXCEPT ![r] = "done"]
    /\ rresp' = [rresp EXCEPT ![r] = "ok"]
    /\ UNCHANGED <<initCredits, audit, analytics, call, applied,
                   submitVars, webhookVars, now, rconv, clientVars,
                   refill, hookVars, probe>>

\* conversions-client.ts:271-286: set the row pending and clear its error,
\* by id alone
RetryUpdate(r) ==
    /\ rpc[r] = "update"
    /\ conv' = [conv EXCEPT ![rconv[r]] =
                  [@ EXCEPT !.status = "pending", !.error_message = Null]]
    /\ rpc' = [rpc EXCEPT ![r] = "done"]
    /\ rresp' = [rresp EXCEPT ![r] = "ok"]
    /\ UNCHANGED <<credits, initCredits, audit, analytics, call, applied,
                   submitVars, webhookVars, now, rconv, clientVars,
                   refill, hookVars, probe>>

\* --------------------------------------------- the client's conversion store
\* clear-cookies.ts:136, 138, 337 (milliseconds)
CACHE_TTL == 30000
MIN_POLLING_INTERVAL == 3000
InitialRefreshDelay == 100

\* pollingManager: null (clear-cookies.ts:146)
NoTimer == 0

\* Date.now() when the page is loaded: any time at least one polling interval
\* after lastBatchFetch's initial 0
PageLoadTime == MIN_POLLING_INTERVAL
Horizon == PageLoadTime + MaxTicks * MIN_POLLING_INTERVAL
LongHorizon == PageLoadTime + LongTicks * MIN_POLLING_INTERVAL

\* the ids the page knows: those returned by its answered submissions
KnownIds == {ConvOf(s) : s \in {t \in SubmitProcs : sresp[t] = "success"}}

\* the statuses of a batch result, "none" for an id it has no row for
NoResult == [id \in ConvIds |-> "none"]

\* a batch endpoint that reports every row it finds as completed
SnapshotAhead(ids) ==
    [id \in ConvIds |-> IF id \in ids /\ conv[id].status # "absent"
                        THEN "completed" ELSE "none"]

\* GET /api/status/batch (src/unnamed/part_002:50-105): the user's rows among
\* the ids asked for, each with its status
Snapshot(ids) ==
    [id \in ConvIds |-> IF id \in ids /\ conv[id].status # "absent"
                        THEN conv[id].status ELSE "none"]

IdleRefresh == [pc |-> "idle", ids |-> {}, result |-> NoResult, how |-> "none"]

\* clear-cookies.ts:470
Finished(status) == status = "completed" \/ status = "failed"
\* a result in which only completed conversions count as finished
FinishedInCompleted(result) == {id \in ConvIds : result[id] = "completed"}

FinishedIn(result) == {id \in ConvIds : Finished(result[id])}

\* a stopPolling that never tears the timer down
stopPollingKeepingTimer(st, conversionId) ==
    [activePolling |-> st.activePolling \ {conversionId},
     pollingManager |-> st.pollingManager]

\* clear-cookies.ts:340-363: stopPolling(conversionId) on the store state st
stopPolling(st, conversionId) ==
    LET newActivePolling == st.activePolling \ {conversionId}
    IN  IF newActivePolling = {} /\ st.pollingManager # NoTimer
        THEN [activePolling |-> newActivePolling, pollingManager |-> NoTimer]
        ELSE [activePolling |-> newActivePolling,
              pollingManager |-> st.pollingManager]

\* clear-cookies.ts:468-474: stopPolling for each finished conversion of a
\* result
RECURSIVE StopFinished(_, _)
StopFinished(st, ids) ==
    IF ids = {} THEN st
    ELSE LET id == CHOOSE x \in ids : TRUE
         IN  StopFinished(stopPolling(st, id), ids \ {id})

\* the frame a new refreshActiveConversions call runs in
FreeFrames == {r \in RefreshProcs : refresh[r].pc # "fetching"}
FreeFrame == CHOOSE r \in FreeFrames : \A q \in FreeFrames : r <= q

\* clear-cookies.ts:443-465 with 370-391: refreshActiveConversions called at
\* time t by a timer, the interval timer being `timer` by then. With nothing
\* to poll, or less than an interval after the last refresh let through, it
\* returns. Otherwise a result cached for the id set and not expired is used
\* at once (lines 375-379, 468-474); else the batch request is sent.
RefreshBody(r, t, timer) ==
    LET activeIds == activePolling
        entries == {e \in requestCache : e.key = activeIds}
        live == {e \in entries : ~(t > e.expires)}
    IN  IF activeIds = {} \/ t - lastBatchFetch < MIN_POLLING_INTERVAL
        THEN /\ pollingManager' = timer
             /\ UNCHANGED <<lastBatchFetch, requestCache, refresh, activePolling>>
        ELSE /\ lastBatchFetch' = t
             /\ IF live # {}
                THEN LET data == (CHOOSE e \in live : TRUE).data
                         st == StopFinished(
                                 [activePolling |-> activePolling,
                                  pollingManager |-> timer], FinishedIn(data))
                     IN  /\ activePolling' = st.activePolling
                         /\ pollingManager' = st.pollingManager
                         /\ refresh' = [refresh EXCEPT ![r] =
                               [pc |-> "done", ids |-> activeIds,
                                result |-> data, how |-> "cached"]]
                         /\ UNCHANGED requestCache
                ELSE /\ requestCache' = requestCache \ entries
                     /\ refresh' = [refresh EXCEPT ![r] =
                           [pc |-> "fetching", ids |-> activeIds,
                            result |-> NoResult, how |-> "none"]]
                     /\ pollingManager' = timer
                     /\ UNCHANGED activePolling

\* clear-cookies.ts:302-338: startPolling(conversionIds)
StartPolling(ids) ==
    /\ starts < NStart
    /\ ids \subseteq KnownIds
    /\ activePolling' = activePolling \cup ids
    /\ pollingManager' = clock + MIN_POLLING_INTERVAL
    /\ timeouts' = timeouts \cup {clock + InitialRefreshDelay}
    /\ starts' = starts + 1
    /\ UNCHANGED <<conversions, requestCache, lastBatchFetch, refresh, clock,
                   serverVars,
                   hookVars, probe>>

\* clear-cookies.ts:324-327: the interval timer fires (timers fire in the
\* order they are due, the interval of useConversionStatus among them), as
\* long as the page is watched
IntervalFireBy(horizon) ==
    /\ pollingManager # NoTimer
    /\ pollingManager <= horizon
    /\ \A d \in timeouts : pollingManager <= d
    /\ intervalRef.due # 0 => pollingManager <= intervalRef.due
    /\ FreeFrames # {}
    /\ clock' = pollingManager
    /\ RefreshBody(FreeFrame, pollingManager,
                   pollingManager + MIN_POLLING_INTERVAL)
    /\ UNCHANGED <<conversions, timeouts, starts, serverVars,
                   hookVars, probe>>

IntervalFire == IntervalFireBy(Horizon)

\* the earliest pending timeout
NextTimeout == CHOOSE d \in timeouts : \A e \in timeouts : d <= e

\* clear-cookies.ts:334-337: the timeout of a startPolling fires
TimeoutFire ==
    /\ timeouts # {}
    /\ pollingManager # NoTimer => NextTimeout <= pollingManager
    /\ intervalRef.due # 0 => NextTimeout <= intervalRef.due
    /\ FreeFrames # {}
    /\ clock' = NextTimeout
    /\ timeouts' = timeouts \ {NextTimeout}
    /\ RefreshBody(FreeFrame, NextTimeout, pollingManager)
    /\ UNCHANGED <<conversions, starts, serverVars,
                   hookVars, probe>>

\* clear-cookies.ts:387-425 and 465-478: the batch request of call r is
\* answered. A response that is not ok throws, refreshActiveConversions logs
\* it. Otherwise the rows go into the store, the result is cached and
\* polling stops for every conversion the result reports finished.
RefreshFetched(r, ok) ==
    /\ refresh[r].pc = "fetching"
    /\ IF ok
       THEN LET result == Snapshot(refresh[r].ids)
                st == StopFinished([activePolling |-> activePolling,
                                    pollingManager |-> pollingManager],
                                   FinishedIn(result))
            IN  /\ conversions' = [id \in ConvIds |->
                      IF result[id] # "none" THEN result[id]
                      ELSE conversions[id]]
                /\ requestCache' =
                      {e \in requestCache : e.key # refresh[r].ids}
                        \cup {[key |-> refresh[r].ids, data |-> result,
                               expires |-> clock + CACHE_TTL]}
                /\ activePolling' = st.activePolling
                /\ pollingManager' = st.pollingManager
                /\ refresh' = [refresh EXCEPT ![r] =
                      [pc |-> "done", ids |-> refresh[r].ids,
                       result |-> result, how |-> "fetched"]]
       ELSE /\ refresh' = [refresh EXCEPT ![r] =
                  [pc |-> "done", ids |-> refresh[r].ids,
                   result |-> NoResult, how |-> "error"]]
            /\ UNCHANGED <<conversions, requestCache, activePolling,
                           pollingManager>>
    /\ UNCHANGED <<lastBatchFetch, timeouts, starts, clock, serverVars,
                   hookVars, probe>>

\* clear-cookies.ts:340-363: the page calls stopPolling(id)
StopPolling(id) ==
    /\ id \in KnownIds
    /\ LET st == stopPolling([activePolling |-> activePolling,
                              pollingManager |-> pollingManager], id)
       IN  /\ activePolling' = st.activePolling
           /\ pollingManager' = st.pollingManager
    /\ UNCHANGED <<conversions, requestCache, lastBatchFetch, timeouts,
                   refresh, starts, clock, serverVars,
                   hookVars, probe>>

\* clear-cookies.ts:208-229: removeConversion(id)
RemoveConversion(id) ==
    /\ id \in KnownIds
    /\ conversions' = [conversions EXCEPT ![id] = "absent"]
    /\ activePolling' = activePolling \ {id}
    /\ UNCHANGED <<requestCache, pollingManager, lastBatchFetch, timeouts,
                   refresh, starts, clock, serverVars,
                   hookVars, probe>>

\* ------------------------------------------- the useConversionStatus hook
\* useConversionStatus.ts:66 and 101 (milliseconds; the cap of the multiplier)
pollingInterval == 2000
BackoffCap == 8

MaxAttempts == 3     \* failed fetchStatus calls in a row the hook is watched for
NHookFetch == 1      \* fetchStatus calls of the hook in flight at once

HookFetches == 1..NHookFetch

\* the hook is mounted for the conversion of the first submission
conversionId == ConvOf(<<"sub", 1>>)

storeVars == <<conversions, requestCache, activePolling, pollingManager,
               lastBatchFetch, timeouts, refresh, starts>>

Min(a, b) == IF a <= b THEN a ELSE b

RECURSIVE Pow2(_)
Pow2(n) == IF n = 0 THEN 1 ELSE 2 * Pow2(n - 1)

\* useConversionStatus.ts:97-103; null is 0
getPollingInterval(status, attempts) ==
    IF Finished(status) THEN 0
    ELSE pollingInterval * Min(Pow2(attempts), BackoffCap)

\* intervalRef.current: null, or the interval with its next due time
NoInterval == [due |-> 0, period |-> 0]

\* useConversionStatus.ts:231-268: startPolling() of the effect run whose
\* closure holds `status` and `attempts`, called at time t
startPolling(status, attempts, t) ==
    IF status = "none" \/ Finished(status) THEN NoInterval
    ELSE [due |-> t + getPollingInterval(status, attempts),
          period |-> getPollingInterval(status, attempts)]

IdleFetch == [pc |-> "idle", origin |-> "none", status |-> "none",
              attempts |-> 0]

\* the frame a new fetchStatus call runs in
FreeHookFetches == {f \in HookFetches : hookFetch[f].pc # "fetching"}
FreeHookFetch == CHOOSE f \in FreeHookFetches : \A g \in FreeHookFetches : f <= g

\* useConversionStatus.ts:228-287: the polling effect runs, on mount and after
\* every render that changed conversion?.status or retryAttempts. The cleanup
\* of the previous run clears the interval (280-286); the body calls
\* fetchStatus() at once (271), up to the request.
HookEffect ==
    /\ effectPending
    /\ conversionId \in KnownIds
    /\ FreeHookFetches # {}
    /\ effectPending' = FALSE
    /\ intervalRef' = NoInterval
    /\ hookFetch' = [hookFetch EXCEPT ![FreeHookFetch] =
          [pc |-> "fetching", origin |-> "effect", status |-> conversion,
           attempts |-> retryAttempts]]
    /\ UNCHANGED <<conversion, retryAttempts, failedAt, clock, storeVars,
                   serverVars, probe>>

\* useConversionStatus.ts:251-257: the interval fires and calls fetchStatus()
HookIntervalFire ==
    /\ intervalRef # NoInterval
    /\ intervalRef.due <= Horizon
    /\ pollingManager # NoTimer => intervalRef.due <= pollingManager
    /\ \A d \in timeouts : intervalRef.due <= d
    /\ FreeHookFetches # {}
    /\ clock' = intervalRef.due
    /\ intervalRef' = [intervalRef EXCEPT !.due = @ + intervalRef.period]
    /\ hookFetch' = [hookFetch EXCEPT ![FreeHookFetch] =
          [pc |-> "fetching", origin |-> "interval", status |-> conversion,
           attempts |-> retryAttempts]]
    /\ UNCHANGED <<conversion, retryAttempts, effectPending, failedAt,
                   storeVars, serverVars, probe>>

\* useConversionStatus.ts:112-158 with 259-266 and 271-278: GET /api/status/id
\* of call f is answered (404 without the row), and the caller goes on with
\* what fetchStatus() returned. A state that changed makes the effect due.
HookFetched(f, ok) ==
    /\ hookFetch[f].pc = "fetching"
    /\ hookFetch' = [hookFetch EXCEPT ![f] = IdleFetch]
    /\ IF ok /\ conv[conversionId].status # "absent"
       THEN LET data == conv[conversionId].status
            IN  /\ conversion' = data
                /\ retryAttempts' = 0
                /\ effectPending' =
                      (effectPending \/ conversion # data \/ retryAttempts # 0)
                /\ intervalRef' =
                      IF hookFetch[f].origin = "effect"
                      THEN IF Finished(data) THEN intervalRef
                           ELSE startPolling(hookFetch[f].status,
                                             hookFetch[f].attempts, clock)
                      ELSE IF Finished(data) THEN NoInterval ELSE intervalRef
                /\ UNCHANGED failedAt
       ELSE /\ retryAttempts < MaxAttempts
            /\ retryAttempts' = retryAttempts + 1
            /\ effectPending' = TRUE
            /\ failedAt' = clock
            /\ UNCHANGED <<conversion, intervalRef>>
    /\ UNCHANGED <<clock, storeVars, serverVars, probe>>

\* ------------------------------------------------- refillUserCredits
IdleRefill == [pc |-> "idle", plan |-> 0, delta |-> 0]

\* users.ts:137-150: read the plan; creditsToAdd = plan.credits_per_month || 10
RefillReadPlan(p, creditsPerMonth) ==
    /\ p \in AdjProcs
    /\ refill[p].pc = "idle"
    /\ call[p].pc = "idle"
    /\ refill' = [refill EXCEPT ![p] =
          [pc |-> "plan", plan |-> PlanCreditsOrDefault(creditsPerMonth),
           delta |-> 0]]
    /\ UNCHANGED <<credits, initCredits, audit, analytics, conv, call, applied,
                   submitVars, webhookVars, now, retryVars, clientVars,
                   hookVars, probe>>

\* users.ts:152-170: read the balance and compute the delta to the plan's
\* credits; with a delta of 0 the profile read is returned
RefillReadBalance(p) ==
    /\ refill[p].pc = "plan"
    /\ refill' = [refill EXCEPT ![p] =
          [pc |-> IF refill[p].plan - credits # 0 THEN "call" ELSE "returned",
           plan |-> refill[p].plan, delta |-> refill[p].plan - credits]]
    /\ UNCHANGED <<credits, initCredits, audit, analytics, conv, call, applied,
                   submitVars, webhookVars, now, retryVars, clientVars,
                   hookVars, probe>>

\* users.ts:165: updateUserCredits(userId, creditDelta, reason), up to the
\* update it is suspended before; what it returns is what the refill returns
RefillCall(p) ==
    /\ refill[p].pc = "call"
    /\ UCRead(p, refill[p].delta, "monthly_refill")
    /\ refill' = [refill EXCEPT ![p].pc = "called"]
    /\ UNCHANGED <<credits, initCredits, audit, analytics, conv, applied,
                   submitVars, webhookVars, now, retryVars, clientVars,
                   hookVars, probe>>

\* ------------------------------------------------- the status endpoints
\* GET /api/status/[id] (src/unnamed/part_001) and GET /api/status/batch
\* (src/unnamed/part_002) compute progress and currentStage from a row's
\* status, file_size, created_at and started_at and from Date.now().
MaxSizeExp == 2      \* file sizes up to 10^MaxSizeExp MB
MaxElapsed == 8      \* rows up to MaxElapsed steps of time old

\* the time between two ages a row is looked at (milliseconds), and one MB
ElapsedStep == 7500
MegaByte == 1000000

RECURSIVE Pow10(_)
Pow10(n) == IF n = 0 THEN 1 ELSE 10 * Pow10(n - 1)

\* file_size: null or 0, or 1, 10, 100, ... MB
FileSizes == {0} \cup {MegaByte * Pow10(k) : k \in 0..MaxSizeExp}
Ages == {k * ElapsedStep : k \in 0..MaxElapsed}

\* started_at: null
NoStart == -1

\* conversion.file_size || fallback
FileSizeOr(fileSize, fallback) == IF fileSize = 0 THEN fallback ELSE fileSize

\* part_001:71   Math.log10(fileSizeMB + 1) * 15000 with
\* fileSizeMB = fileSize / 1024 / 1024, in whole milliseconds, for the sizes
\* above and the fallback size of line 69
sizeMultiplier(fileSize) ==
    CASE fileSize = 1024000 -> 4438
      [] fileSize = 1000000 -> 4362
      [] fileSize = 10000000 -> 15340
      [] fileSize = 100000000 -> 29758
      [] fileSize = 1000000000 -> 44697

\* part_001:69-72
estimatedTotal(fileSize) ==
    Max(30000, 30000 + sizeMultiplier(FileSizeOr(fileSize, 1024000)))

\* a progress ratio that is not capped
SingleProgressUncapped(elapsed, total) == (100 * elapsed) \div total

\* part_001:82-83   Math.floor(Math.min(elapsed / estimatedTotal, 0.95) * 100)
SingleProgress(elapsed, total) ==
    IF 100 * elapsed >= 95 * total THEN 95 ELSE (100 * elapsed) \div total

\* part_001:85-98: the first stage whose cumulative share (0.05, 0.30, 0.80,
\* 1.00) the capped ratio does not exceed; formatting above 90 percent
SingleStage(elapsed, total) ==
    IF SingleProgress(elapsed, total) > 90 THEN "formatting"
    ELSE IF 100 * elapsed <= 5 * total THEN "upload"
    ELSE IF 100 * elapsed <= 30 * total THEN "parsing"
    ELSE IF 100 * elapsed <= 80 * total THEN "extraction"
    ELSE "formatting"

\* part_001:57-106 with 121-126: what GET /api/status/[id] answers for a row
StatusAnswer(row) ==
    LET total == estimatedTotal(row.file_size)
    IN  CASE row.status = "pending" ->
               [status |-> row.status, progress |-> 0, currentStage |-> "upload"]
          [] row.status = "processing" ->
               [status |-> row.status,
                progress |-> SingleProgress(row.sinceCreated, total),
                currentStage |-> SingleStage(row.sinceCreated, total)]
          [] row.status = "completed" ->
               [status |-> row.status, progress |-> 100,
                currentStage |-> "completed"]
          [] row.status = "failed" ->
               [status |-> row.status, progress |-> 0, currentStage |-> "failed"]

\* part_002:80   Math.max(30000, (file_size || 1000000) / 1000000 * 30000);
\* the sizes above are whole MB
estimatedTotalTime(fileSize) ==
    Max(30000, (FileSizeOr(fileSize, 1000000) \div 1000000) * 30000)

\* part_002:81 and 104: Math.round of
\* Math.min(95, Math.max(10, processingTime / estimatedTotalTime * 80 + 10))
BatchProgress(processingTime, total) ==
    Min(95, Max(10, (160 * processingTime + 21 * total) \div (2 * total)))

\* part_002:84-90: the stage by the progress before rounding (below 30,
\* below 60, else)
BatchStage(processingTime, total) ==
    IF 80 * processingTime < 20 * total THEN "Analyzing PDF structure"
    ELSE IF 80 * processingTime < 50 * total THEN "Extracting tables"
    ELSE "Generating Excel file"

\* part_002:66-107: what GET /api/status/batch answers for a row
BatchAnswer(row) ==
    LET processingTime == IF row.sinceStarted # NoStart
                          THEN row.sinceStarted ELSE row.sinceCreated
        total == estimatedTotalTime(row.file_size)
    IN  CASE row.status = "pending" ->
               [status |-> row.status, progress |-> 5,
                currentStage |-> "Queued for processing"]
          [] row.status = "processing" ->
               [status |-> row.status,
                progress |-> BatchProgress(processingTime, total),
                currentStage |-> BatchStage(processingTime, total)]
          [] row.status = "completed" ->
               [status |-> row.status, progress |-> 100,
                currentStage |-> "Completed"]
          [] row.status = "failed" ->
               [status |-> row.status, progress |-> 0, currentStage |-> "Failed"]

NoAnswer == [status |-> "none", progress |-> 0, currentStage |-> "none"]
NoProbe == [row |-> [status |-> "none", file_size |-> 0, sinceCreated |-> 0,
                     sinceStarted |-> NoStart],
            single |-> NoAnswer, batch |-> NoAnswer]

\* the rows the endpoints can be asked about: a row in processing has the
\* started_at the submit handler wrote, at or after created_at; any other has
\* the one it had in processing, or none
ProbeRows ==
    {[status |-> st, file_size |-> fs, sinceCreated |-> c, sinceStarted |-> b] :
        st \in {"pending", "processing", "completed", "failed"},
        fs \in FileSizes, c \in Ages, b \in Ages \cup {NoStart}}

\* both endpoints are asked about the same row at the same instant
ProbeStatus(row) ==
    /\ row.sinceStarted <= row.sinceCreated
    /\ row.sinceCreated - row.sinceStarted <= ElapsedStep
         \/ row.sinceStarted = NoStart
    /\ row.status = "processing" => row.sinceStarted # NoStart
    /\ probe' = [row |-> row, single |-> StatusAnswer(row),
                 batch |-> BatchAnswer(row)]
    /\ UNCHANGED <<serverVars, clientVars, hookVars>>

\* ------------------------------------------------------------ initial state
InitCommon ==
    /\ initCredits \in 0..MaxCredits
    /\ credits = initCredits
    /\ audit = <<>>
    /\ analytics = EmptyBag
    /\ conv = [c \in ConvIds |-> NoRow]
    /\ call = [p \in Procs |-> IdleCall]
    /\ applied = [p \in Procs |-> 0]
    /\ spc = [s \in SubmitProcs |-> "idle"]
    /\ sresp = [s \in SubmitProcs |-> "none"]
    /\ wpc = [w \in WebhookProcs |-> "idle"]
    /\ wpayload = [w \in WebhookProcs |-> NoPayload]
    /\ wconv = [w \in WebhookProcs |-> NoRow]
    /\ wresp = [w \in WebhookProcs |-> 0]
    /\ wreq = [w \in WebhookProcs |-> NoRequest]
    /\ now = 0
    /\ rpc = [r \in RetryProcs |-> "idle"]
    /\ rconv = [r \in RetryProcs |-> UnknownId]
    /\ rresp = [r \in RetryProcs |-> "none"]
    /\ conversions = [id \in ConvIds |-> "absent"]
    /\ requestCache = {}
    /\ activePolling = {}
    /\ pollingManager = NoTimer
    /\ lastBatchFetch = 0
    /\ timeouts = {}
    /\ refresh = [r \in RefreshProcs |-> IdleRefresh]
    /\ starts = 0
    /\ clock = PageLoadTime
    /\ refill = [p \in AdjProcs |-> IdleRefill]
    /\ conversion = "none"
    /\ retryAttempts = 0
    /\ intervalRef = NoInterval
    /\ effectPending = TRUE
    /\ hookFetch = [f \in HookFetches |-> IdleFetch]
    /\ failedAt = 0
    /\ probe = NoProbe

\* ---------------------------------------- the ledger under direct callers
NextLedger ==
    \/ \E p \in AdjProcs, d \in Deltas : AdjustStart(p, d)
    \/ \E p \in AdjProcs : UCWrite(p)
    \/ \E p \in AdjProcs, logged \in BOOLEAN : UCAudit(p, logged)

SpecLedger == InitCommon /\ [][NextLedger]_vars

\* ---------------- one caller of the ledger and upgrades of the subscription
TheCaller == <<"adj", 1>>

NextUpgrade ==
    \/ \E d \in Deltas : AdjustStart(TheCaller, d)
    \/ UCWrite(TheCaller)
    \/ \E logged \in BOOLEAN : UCAudit(TheCaller, logged)
    \/ \E creditsPerMonth \in PlanCredits :
          UpgradeUserSubscription(creditsPerMonth)

SpecUpgrade == InitCommon /\ [][NextUpgrade]_vars

\* ---------- a monthly refill and one concurrent direct caller of the ledger
TheRefiller == <<"adj", NAdjusters>>

NextRefill ==
    \/ \E d \in Deltas : AdjustStart(TheCaller, d)
    \/ \E p \in {TheCaller, TheRefiller} : UCWrite(p)
    \/ \E p \in {TheCaller, TheRefiller}, logged \in BOOLEAN : UCAudit(p, logged)
    \/ \E creditsPerMonth \in PlanCredits :
          RefillReadPlan(TheRefiller, creditsPerMonth)
    \/ RefillReadBalance(TheRefiller)
    \/ RefillCall(TheRefiller)

SpecRefill == InitCommon /\ [][NextRefill]_vars

\* ------------------------------ concurrent submissions of the one user
NextSubmit ==
    \/ \E s \in SubmitProcs : SubmitCheckLimits(s)
    \/ \E s \in SubmitProcs : SubmitCreate(s)
    \/ \E s \in SubmitProcs : SubmitDeduct(s)
    \/ \E s \in SubmitProcs : UCWrite(s)
    \/ \E s \in SubmitProcs, logged \in BOOLEAN : UCAudit(s, logged)
    \/ \E s \in SubmitProcs : SubmitCatch(s)
    \/ \E s \in SubmitProcs, accepted \in BOOLEAN : SubmitDispatch(s, accepted)
    \/ \E s \in SubmitProcs : SubmitMarkProcessing(s)
    \/ \E s \in SubmitProcs : SubmitMarkFailed(s)
    \/ \E s \in SubmitProcs : SubmitRefund(s)
    \/ \E s \in SubmitProcs : SubmitRefunded(s)

SpecSubmit == InitCommon /\ [][NextSubmit]_vars

\* ------------- one submission and the processor's webhook deliveries for it
\* A lone request's ledger calls neither lose a race nor run short after the
\* limits check, so the outer catch (SubmitCatch) has no step here.
TheSubmit == <<"sub", 1>>

NextWebhook ==
    \/ SubmitCheckLimits(TheSubmit)
    \/ SubmitCreate(TheSubmit)
    \/ SubmitDeduct(TheSubmit)
    \/ UCWrite(TheSubmit)
    \/ \E logged \in BOOLEAN : UCAudit(TheSubmit, logged)
    \/ \E accepted \in BOOLEAN : SubmitDispatch(TheSubmit, accepted)
    \/ SubmitMarkProcessing(TheSubmit)
    \/ SubmitMarkFailed(TheSubmit)
    \/ SubmitRefund(TheSubmit)
    \/ SubmitRefunded(TheSubmit)
    \/ \E w \in WebhookProcs, payload \in Payloads :
          WebhookReceive(w, ExpectedSignature, TRUE, payload)
    \/ \E w \in WebhookProcs : WebhookUpdate(w)
    \/ \E w \in WebhookProcs, tracked \in BOOLEAN : WebhookTrack(w, tracked)

SpecWebhook == InitCommon /\ [][NextWebhook]_vars

\* ---------- one submission and one delivery of any request a sender can make
TheDelivery == 1

IngressRequests ==
    {[signature |-> sig, json |-> TRUE, payload |-> payload] :
        sig \in SignatureHeaders, payload \in IngressPayloads}
      \cup {[signature |-> sig, json |-> FALSE, payload |-> NoPayload] :
               sig \in SignatureHeaders}

NextIngress ==
    \/ SubmitCheckLimits(TheSubmit)
    \/ SubmitCreate(TheSubmit)
    \/ SubmitDeduct(TheSubmit)
    \/ UCWrite(TheSubmit)
    \/ \E logged \in BOOLEAN : UCAudit(TheSubmit, logged)
    \/ \E accepted \in BOOLEAN : SubmitDispatch(TheSubmit, accepted)
    \/ SubmitMarkProcessing(TheSubmit)
    \/ SubmitMarkFailed(TheSubmit)
    \/ SubmitRefund(TheSubmit)
    \/ SubmitRefunded(TheSubmit)
    \/ \E req \in IngressRequests :
          WebhookReceive(TheDelivery, req.signature, req.json, req.payload)
    \/ WebhookUpdate(TheDelivery)
    \/ \E tracked \in BOOLEAN : WebhookTrack(TheDelivery, tracked)

SpecIngress == InitCommon /\ [][NextIngress]_vars

\* ------ one submission, one delivery for it, and the user's retries of it
NextRetry ==
    \/ SubmitCheckLimits(TheSubmit)
    \/ SubmitCreate(TheSubmit)
    \/ SubmitDeduct(TheSubmit)
    \/ UCWrite(TheSubmit)
    \/ \E logged \in BOOLEAN : UCAudit(TheSubmit, logged)
    \/ \E accepted \in BOOLEAN : SubmitDispatch(TheSubmit, accepted)
    \/ SubmitMarkProcessing(TheSubmit)
    \/ SubmitMarkFailed(TheSubmit)
    \/ SubmitRefund(TheSubmit)
    \/ SubmitRefunded(TheSubmit)
    \/ \E payload \in Payloads :
          WebhookReceive(TheDelivery, ExpectedSignature, TRUE, payload)
    \/ WebhookUpdate(TheDelivery)
    \/ \E tracked \in BOOLEAN : WebhookTrack(TheDelivery, tracked)
    \/ \E r \in RetryProcs, id \in ConvIds : RetryFetch(r, id)
    \/ \E r \in RetryProcs : RetryCheckCredits(r)
    \/ \E r \in RetryProcs : RetryUpdate(r)

SpecRetry == InitCommon /\ [][NextRetry]_vars

\* ---- one submission, one delivery for it, and the page that polls for it
\* The page polls a conversion once its submission was answered with the id:
\* the processor accepts the dispatch, and the audit and analytics inserts of
\* the two handlers succeed.
NextClient ==
    \/ SubmitCheckLimits(TheSubmit)
    \/ SubmitCreate(TheSubmit)
    \/ SubmitDeduct(TheSubmit)
    \/ UCWrite(TheSubmit)
    \/ UCAudit(TheSubmit, TRUE)
    \/ SubmitDispatch(TheSubmit, TRUE)
    \/ SubmitMarkProcessing(TheSubmit)
    \/ \E payload \in Payloads :
          WebhookReceive(TheDelivery, ExpectedSignature, TRUE, payload)
    \/ WebhookUpdate(TheDelivery)
    \/ WebhookTrack(TheDelivery, TRUE)
    \/ \E ids \in SUBSET ConvIds : StartPolling(ids)
    \/ IntervalFire
    \/ TimeoutFire
    \/ \E r \in RefreshProcs, ok \in BOOLEAN : RefreshFetched(r, ok)
    \/ \E id \in ConvIds : StopPolling(id)
    \/ \E id \in ConvIds : RemoveConversion(id)

SpecClient == InitCommon /\ [][NextClient]_vars

\* ------- one submission, one delivery for it, and the hook mounted for it
NextHook ==
    \/ SubmitCheckLimits(TheSubmit)
    \/ SubmitCreate(TheSubmit)
    \/ SubmitDeduct(TheSubmit)
    \/ UCWrite(TheSubmit)
    \/ UCAudit(TheSubmit, TRUE)
    \/ SubmitDispatch(TheSubmit, TRUE)
    \/ SubmitMarkProcessing(TheSubmit)
    \/ \E payload \in Payloads :
          WebhookReceive(TheDelivery, ExpectedSignature, TRUE, payload)
    \/ WebhookUpdate(TheDelivery)
    \/ WebhookTrack(TheDelivery, TRUE)
    \/ HookEffect
    \/ HookIntervalFire
    \/ \E f \in HookFetches, ok \in BOOLEAN : HookFetched(f, ok)

SpecHook == InitCommon /\ [][NextHook]_vars

\* ------------------------- the two status endpoints asked about one row
NextEstimator == \E row \in ProbeRows : ProbeStatus(row)

SpecEstimator == InitCommon /\ [][NextEstimator]_vars

\* ---- one submission, one delivery for it, and the pages that follow it:
\* ---- first, if at all, a page built on the store's polling, then a page
\* ---- built on useConversionStatus; their status requests are answered
StoreQuiet ==
    /\ pollingManager = NoTimer
    /\ timeouts = {}
    /\ \A r \in RefreshProcs : refresh[r].pc # "fetching"
HookUnused ==
    /\ effectPending
    /\ conversion = "none"
    /\ hookFetch = [f \in HookFetches |-> IdleFetch]

\* useOptimizedConversions.ts:148-176: a page built on the store polls for it
PageStartPolling == HookUnused /\ StartPolling({conversionId})

\* useConversionStatus.ts:228-287: a page built on the hook runs its effect
PageHookEffect == StoreQuiet /\ HookEffect

NextPage ==
    \/ SubmitCheckLimits(TheSubmit)
    \/ SubmitCreate(TheSubmit)
    \/ SubmitDeduct(TheSubmit)
    \/ UCWrite(TheSubmit)
    \/ UCAudit(TheSubmit, TRUE)
    \/ SubmitDispatch(TheSubmit, TRUE)
    \/ SubmitMarkProcessing(TheSubmit)
    \/ \E payload \in Payloads :
          WebhookReceive(TheDelivery, ExpectedSignature, TRUE, payload)
    \/ WebhookUpdate(TheDelivery)
    \/ WebhookTrack(TheDelivery, TRUE)
    \/ PageStartPolling
    \/ IntervalFire
    \/ TimeoutFire
    \/ \E r \in RefreshProcs : RefreshFetched(r, TRUE)
    \/ RemoveConversion(conversionId)
    \/ PageHookEffect
    \/ HookIntervalFire
    \/ \E f \in HookFetches : HookFetched(f, TRUE)

SpecPage == InitCommon /\ [][NextPage]_vars

\* ---- one paid submission, the processor's delivery for it, and a page left
\* ---- open that polls for it: the browser fires the timers that are due and
\* ---- the batch requests are answered
InitPolling == InitCommon /\ initCredits = MaxCredits

\* useOptimizedConversions.ts:148-155: the page starts polling for it, once
MountPolling == starts = 0 /\ StartPolling({conversionId})

NextPolling ==
    \/ SubmitCheckLimits(TheSubmit)
    \/ SubmitCreate(TheSubmit)
    \/ SubmitDeduct(TheSubmit)
    \/ UCWrite(TheSubmit)
    \/ UCAudit(TheSubmit, TRUE)
    \/ SubmitDispatch(TheSubmit, TRUE)
    \/ SubmitMarkProcessing(TheSubmit)
    \/ \E payload \in {Completion(conversionId), Failure(conversionId)} :
          WebhookReceive(TheDelivery, ExpectedSignature, TRUE, payload)
    \/ WebhookUpdate(TheDelivery)
    \/ WebhookTrack(TheDelivery, TRUE)
    \/ MountPolling
    \/ IntervalFireBy(LongHorizon)
    \/ TimeoutFire
    \/ \E r \in RefreshProcs : RefreshFetched(r, TRUE)

SpecPolling ==
    /\ InitPolling
    /\ [][NextPolling]_vars
    /\ WF_vars(IntervalFireBy(LongHorizon))
    /\ WF_vars(TimeoutFire)
    /\ \A r \in RefreshProcs : WF_vars(RefreshFetched(r, TRUE))

\* ------------------------------------------------------------ the claims
RECURSIVE SumOver(_, _)
SumOver(f, S) ==
    IF S = {} THEN 0
    ELSE LET x == CHOOSE y \in S : TRUE IN f[x] + SumOver(f, S \ {x})

\* the delta of p's call if its conditional write was applied, else 0
WrittenDelta == [p \in Procs |->
    IF call[p].pc \in {"audit", "ok"} THEN call[p].delta ELSE 0]
SucceededDelta == [p \in Procs |->
    IF call[p].pc = "ok" THEN call[p].delta ELSE 0]
AllAdjustReturned == \A p \in AdjProcs : CallReturned(p)

\* C1: under every interleaving of concurrent updateUserCredits calls on one
\* balance, the stored balance is never negative, it is always the initial
\* balance plus the deltas of the calls whose write was applied, and once all
\* calls have returned it is the initial balance plus the deltas of exactly
\* the calls that returned success.
C1_BalanceIsInitialPlusSuccessfulDeltas ==
    /\ credits >= 0
    /\ credits = initCredits + SumOver(WrittenDelta, AdjProcs)
    /\ AllAdjustReturned =>
          credits = initCredits + SumOver(SucceededDelta, AdjProcs)

\* C1 witness: all calls returned, one lost a race, another went through
C1_Witness ==
    /\ AllAdjustReturned
    /\ \E p \in AdjProcs : call[p].pc = "ConcurrentModification"
    /\ \E p \in AdjProcs : call[p].pc = "ok"
    /\ credits # initCredits

C3_InsufficientCreditsNoWrite ==
    /\ [][\A p \in AdjProcs :
            (call[p].pc = "idle" /\ call'[p].pc # "idle"
                /\ call'[p].delta < 0 /\ credits + call'[p].delta < 0)
            => /\ call'[p].pc = "InsufficientCredits"
               /\ credits' = credits
               /\ audit' = audit]_vars
    /\ [](\A p \in AdjProcs :
            call[p].pc = "InsufficientCredits" => applied[p] = 0)

\* C3 witness: a deduction larger than the balance has been rejected
C3_Witness ==
    \E p \in AdjProcs :
        /\ call[p].pc = "InsufficientCredits"
        /\ call[p].delta < 0
        /\ call[p].cur + call[p].delta < 0

\* ------------------------------------------------ claims on the webhook
RefundRows ==
    {i \in 1..Len(audit) : /\ audit[i].reason = "conversion_failed_refund"
                           /\ audit[i].credit_delta = 1}
WebhookStep(w) == wpc'[w] # wpc[w]
Terminal == {"completed", "failed"}

\* C4: a validly signed webhook reporting failed for a conversion in
\* processing makes the conversion failed and gives the owner the credit
\* back through adjust(+1, conversion_failed_refund): once the delivery is
\* answered, the balance is the pre-submission balance again and an audit row
\* with delta +1 and that reason exists.
C4_FailedWebhookRefundsCredit ==
    /\ [][\A w \in WebhookProcs :
            (wpc[w] = "update" /\ WebhookStep(w)
                /\ wpayload[w].status = "failed"
                /\ conv[wpayload[w].conversionId].status = "processing")
            => conv'[wpayload[w].conversionId].status = "failed"]_vars
    /\ [](\A w \in WebhookProcs :
            (wpc[w] = "done" /\ wresp[w] = 200
                /\ wpayload[w].status = "failed"
                /\ wconv[w].status = "processing")
            => /\ credits = initCredits
               /\ RefundRows # {})

\* a delivery that repeats the payload of a delivery already answered 200
Redelivery(w) ==
    \E w2 \in WebhookProcs \ {w} :
        /\ wpc[w2] = "done"
        /\ wresp[w2] = 200
        /\ wpayload[w2] = wpayload'[w]

\* C6: every delivery of a valid terminal payload for an existing conversion
\* is answered 200, no step of a delivery that repeats an answered payload
\* changes the owner's balance, and the balance never exceeds what it was
\* before the submission (no conversion is refunded more than once).
C6_DuplicateDeliveryKeepsBalance ==
    /\ [](\A w \in WebhookProcs :
            (wpc[w] = "done" /\ wpayload[w].conversionId \in ConvIds)
            => wresp[w] = 200)
    /\ [][\A w \in WebhookProcs :
            (WebhookStep(w) /\ Redelivery(w)) => credits' = credits]_vars
    /\ [](credits <= initCredits)

\* C6 witness: the same failed payload delivered twice, both answered 200
C6_Witness ==
    \E w1, w2 \in WebhookProcs :
        /\ w1 # w2
        /\ wpc[w1] = "done" /\ wpc[w2] = "done"
        /\ wresp[w1] = 200 /\ wresp[w2] = 200
        /\ wpayload[w1] = wpayload[w2]
        /\ wpayload[w1].status = "failed"
        /\ wconv[w2].status = "failed"

\* C7: a delivery that found the conversion already in the terminal status
\* it reports changes nothing in the store: the conversions row and the
\* usage-analytics and audit rows are the same after each of its steps.
C7_RedeliveryIsNoOp ==
    [][\A w \in WebhookProcs :
        (WebhookStep(w) /\ wpc[w] # "idle"
            /\ wconv[w].status \in Terminal
            /\ wconv[w].status = wpayload[w].status)
        => /\ conv' = conv
           /\ analytics' = analytics
           /\ audit' = audit]_vars

\* C8: the update of a delivery leaves a completed conversion completed and
\* never turns a failed conversion into completed.
C8_TerminalAbsorbing ==
    [][\A w \in WebhookProcs :
        (wpc[w] = "update" /\ WebhookStep(w)
            /\ conv[wpayload[w].conversionId].status \in Terminal)
        => conv'[wpayload[w].conversionId].status =
              conv[wpayload[w].conversionId].status]_vars

\* ------------------------------------------------- claims on submissions
Refunded(s) ==
    call[s].reason = "conversion_failed_refund" /\ call[s].pc \in {"audit", "ok"}
\* the request has made its fetch to the processor
Dispatched(s) ==
    \/ spc[s] \in {"accepted", "rejected", "refund", "refunding"}
    \/ spc[s] = "done" /\ conv[ConvOf(s)].status \in {"processing", "failed"}
DispatchFailed(s) ==
    \/ spc[s] \in {"rejected", "refund", "refunding"}
    \/ spc[s] = "done" /\ conv[ConvOf(s)].status = "failed"

\* C5: a submit request whose dispatch failed ends with the conversion failed
\* and its credit refunded, whatever the other requests of the user do: no
\* request is over with its conversion failed and its deduction still applied.
C5_DispatchFailureRefunds ==
    \A s \in SubmitProcs :
        (spc[s] = "done" /\ DispatchFailed(s))
        => /\ conv[ConvOf(s)].status = "failed"
           /\ Refunded(s)
           /\ applied[s] = 0

\* C9: a request makes its fetch to the processor only after its own
\* updateUserCredits(-1) returned success, and the number of conversions
\* dispatched and not refunded never exceeds the initial balance.
C9_DispatchOnlyWhenPaid ==
    /\ [][\A s \in SubmitProcs :
            (~Dispatched(s) /\ Dispatched(s)')
            => /\ call[s].pc = "ok"
               /\ call[s].delta = -1
               /\ call[s].reason = "conversion_started"]_vars
    /\ [](Cardinality({s \in SubmitProcs : Dispatched(s) /\ ~Refunded(s)})
            <= initCredits)

\* C9 witness: more submissions than credits, every credit spent on a
\* dispatched conversion, and a request turned away
C9_Witness ==
    /\ initCredits >= 1
    /\ initCredits < NSubmit
    /\ Cardinality({s \in SubmitProcs : Dispatched(s) /\ ~Refunded(s)})
          = initCredits
    /\ \E s \in SubmitProcs : spc[s] = "done" /\ ~Dispatched(s)

\* the request was turned away for lack of credits: by the limits check, or
\* by the deduction
RejectedForCredits(s) ==
    /\ spc[s] = "done"
    /\ \/ sresp[s] = "INSUFFICIENT_CREDITS"
       \/ call[s].pc = "InsufficientCredits"

\* C10: a submission rejected for insufficient credits has created no
\* conversion row, deducted nothing and dispatched nothing; no request that
\* ended so leaves its conversion pending.
C10_RejectedSubmissionLeavesNothing ==
    \A s \in SubmitProcs :
        RejectedForCredits(s)
        => /\ conv[ConvOf(s)] = NoRow
           /\ applied[s] = 0
           /\ ~Dispatched(s)

\* ------------------------------------------- claims on request validation
\* C11: with the shared secret configured, a delivery whose
\* X-Webhook-Signature header is not the hex HMAC-SHA256 of its raw body
\* (missing, another value, another length) is answered 401, whether or not
\* the body parses, and its arrival changes no conversion, balance or
\* analytics row.
C11_BadSignatureAnswered401 ==
    [][\A w \in WebhookProcs :
        (wpc[w] = "idle" /\ WebhookStep(w)
            /\ wreq'[w].signature # ExpectedSignature)
        => /\ wpc'[w] = "done"
           /\ wresp'[w] = 401
           /\ UNCHANGED <<conv, credits, audit, analytics>>]_vars

\* C12: a delivery that passes the signature check but whose payload lacks a
\* conversionId, or whose status is not completed or failed, is answered 400
\* and writes nothing, so the ingress never sets a status outside
\* {completed, failed}.
C12_NonTerminalStatusAnswered400 ==
    /\ \A w \in WebhookProcs :
        (/\ wpc[w] # "idle"
         /\ wreq[w].signature = ExpectedSignature
         /\ wreq[w].json
         /\ \/ wpayload[w].conversionId = MissingId
            \/ wpayload[w].status \notin Terminal)
        => wpc[w] = "done" /\ wresp[w] = 400
    /\ \A w \in WebhookProcs :
        wpc[w] = "update" => wpayload[w].status \in Terminal

\* ------------------------------------------------------- claims on retry
RetryStep(r) == rpc'[r] # rpc[r]
InsufficientToRetry == "Insufficient credits to retry conversion"

\* C13: a retry of a failed conversion that reads a balance of 0 is refused
\* with the insufficient-credits error and the call has left the record as it
\* was; one that reads a balance of 1 or more goes on to its update, and the
\* update sets the status pending and the error message null.
C13_RetryNeedsOneCredit ==
    [][\A r \in RetryProcs :
        /\ (rpc[r] = "profile" /\ RetryStep(r) /\ credits = 0)
              => /\ rpc'[r] = "done"
                 /\ rresp'[r] = InsufficientToRetry
        /\ (rpc[r] = "profile" /\ RetryStep(r) /\ credits >= 1)
              => rpc'[r] = "update"
        /\ (RetryStep(r) /\ rresp'[r] # "ok") => conv' = conv
        /\ (RetryStep(r) /\ rresp'[r] = "ok")
              => /\ rpc[r] = "update"
                 /\ conv'[rconv[r]].status = "pending"
                 /\ conv'[rconv[r]].error_message = Null]_vars

\* C13 witness: one retry was refused for credits, a later one went through
\* and the conversion is pending with no error message
C13_Witness ==
    \E r1, r2 \in RetryProcs :
        /\ rresp[r1] = InsufficientToRetry
        /\ rresp[r2] = "ok"
        /\ rconv[r1] = rconv[r2]
        /\ conv[rconv[r2]].status = "pending"
        /\ conv[rconv[r2]].error_message = Null

\* C14: no step of a retry changes the balance or appends an audit row, and
\* the balance goes down only by the conditional write of a submit request's
\* deduction: no credit is taken for a retried conversion before a dispatch
\* of it has been accepted.
C14_RetryLeavesBalance ==
    [][/\ (\E r \in RetryProcs : RetryStep(r))
            => UNCHANGED <<credits, audit, applied>>
       /\ credits' < credits
            => \E s \in SubmitProcs :
                  /\ call[s].pc = "write"
                  /\ call[s].reason = "conversion_started"
                  /\ call'[s].pc = "audit"
                  /\ credits' = credits - 1]_vars

\* C14 witness: the conversion failed by webhook was retried and is pending,
\* and the balance is still the initial one less the submission's credit
C14_Witness ==
    \E r \in RetryProcs :
        /\ rresp[r] = "ok"
        /\ conv[rconv[r]].status = "pending"
        /\ sresp[TheSubmit] = "success"
        /\ wresp[TheDelivery] = 200
        /\ credits = initCredits - 1
        /\ credits >= 1

\* ------------------------------------------- claims on the conversion row
\* C15: in every reachable state, over the writes of submission, dispatch
\* accepted, dispatch failed, webhook and retry, a conversion has a download
\* URL exactly when its status is completed.
C15_DownloadUrlIffCompleted ==
    \A c \in ConvIds :
        conv[c].status # "absent"
            => (conv[c].download_url # Null <=> conv[c].status = "completed")

\* ------------------------------------------------ claims on the audit log
SucceededCalls == {p \in AdjProcs : call[p].pc = "ok"}

\* C16 as stated: every updateUserCredits call that returned success has
\* appended exactly one audit row, and the failed calls none: the log has as
\* many rows as there are successful calls.
C16_ExactlyOneAuditRowPerSuccess ==
    Len(audit) = Cardinality(SucceededCalls)

\* C16 amended: a call appends at most one audit row, after its conditional
\* write was applied and before it returns success (none when the insert
\* failed, which is logged and swallowed); the row carries the call's before,
\* delta and reason with after = before + delta; a failed call appends none.
C16_AtMostOneAuditRowPerSuccess ==
    /\ [](/\ Len(audit) <= Cardinality(SucceededCalls)
          /\ \A i \in 1..Len(audit) :
                audit[i].credits_after =
                    audit[i].credits_before + audit[i].credit_delta)
    /\ [][audit' # audit
            => \E p \in AdjProcs :
                  /\ call[p].pc = "audit"
                  /\ call'[p].pc = "ok"
                  /\ audit' = Append(audit,
                        [credit_delta |-> call[p].delta,
                         credits_before |-> call[p].cur,
                         credits_after |-> call[p].cur + call[p].delta,
                         reason |-> call[p].reason])]_vars

\* C16 witness: two calls returned success, one of them with its audit row
\* and the other after a failed insert
C16_Witness ==
    /\ Cardinality(SucceededCalls) = 2
    /\ Len(audit) = 1
    /\ audit[1].credits_after = audit[1].credits_before + audit[1].credit_delta

\* C17: after the profile is created, its balance changes only by the
\* conditional write of an updateUserCredits call, which goes on to its audit
\* insert; nothing else, upgradeUserSubscription included, overwrites
\* credits_remaining.
C17_BalanceChangesOnlyThroughLedger ==
    [][credits' # credits
        => \E p \in Procs :
              /\ call[p].pc = "write"
              /\ call'[p].pc = "audit"
              /\ LockHolds(credits, call[p].cur)
              /\ credits' = NewCredits(call[p].cur, call[p].delta)]_vars

\* C18: when the updateUserCredits call of a submission (its deduction or its
\* dispatch-failure refund) fails with ConcurrentModification, the request
\* calls again before it gives up: its next step is never the error response.
C18_ConcurrentModificationIsRetried ==
    [][\A s \in SubmitProcs :
        (/\ spc[s] \in {"deducting", "refunding"}
         /\ call[s].pc = "ConcurrentModification"
         /\ spc'[s] # spc[s])
        => spc'[s] # "done"]_vars

\* --------------------------------------- claims on the webhook's side effects
CompletionEvent(w) ==
    EventRow(IF wpayload[w].status = "completed"
             THEN "conversion_success" ELSE "conversion_failed",
             wpayload[w].conversionId)

\* C19: when the tracking of the completion event fails after the status
\* update (no analytics row is added), the delivery is still answered 200 and
\* the step leaves the conversions rows as the update wrote them.
C19_SideEffectFailureKeepsUpdate ==
    [][\A w \in WebhookProcs :
        (wpc[w] = "track" /\ WebhookStep(w) /\ analytics' = analytics)
        => /\ wpc'[w] = "done"
           /\ wresp'[w] = 200
           /\ conv' = conv]_vars

\* C19 witness: a delivery answered 200 whose event was never tracked, the
\* conversion in the terminal status it reported
C19_Witness ==
    \E w \in WebhookProcs :
        /\ wresp[w] = 200
        /\ wpayload[w].status \in Terminal
        /\ conv[wpayload[w].conversionId].status = wpayload[w].status
        /\ ~BagIn(CompletionEvent(w), analytics)

\* ------------------------------------------------ claims on the client store
\* call r of refreshActiveConversions gets its result in this step: from the
\* network, or from the cache
Refreshed(r) ==
    /\ refresh'[r].pc = "done"
    /\ \/ refresh[r].pc = "fetching" /\ refresh'[r].how = "fetched"
       \/ /\ refresh[r].pc # "fetching"
          /\ lastBatchFetch' # lastBatchFetch
          /\ refresh'[r].how = "cached"
          /\ r = FreeFrame

\* C20: when a refreshActiveConversions call gets a result that reports a
\* polled conversion completed or failed, that id is not in the active
\* polling set once the call is over, and if the set is then empty the
\* timer is cleared: pollingManager is null.
C20_FinishedConversionLeavesPolling ==
    [][\A r \in RefreshProcs :
        Refreshed(r) =>
            \A id \in refresh'[r].ids :
                Finished(refresh'[r].result[id])
                    => /\ id \notin activePolling'
                       /\ activePolling' = {} => pollingManager' = NoTimer]_vars

\* C20 witness: a fetch reported the polled conversion finished; the store
\* holds that status, nothing is polled and the timer is cleared
C20_Witness ==
    \E r \in RefreshProcs :
        /\ refresh[r].how = "fetched"
        /\ \E id \in refresh[r].ids :
              /\ Finished(refresh[r].result[id])
              /\ conversions[id] = refresh[r].result[id]
        /\ activePolling = {}
        /\ pollingManager = NoTimer

\* C21: after any sequence of store operations, whenever the active polling
\* set is empty the timer is torn down: pollingManager is null.
C21_NoTimerWithoutPolledIds ==
    activePolling = {} => pollingManager = NoTimer

\* C22: polling backs off exponentially on fetch errors: a status fetch issued
\* after k consecutive failed fetches comes no sooner than
\* pollingInterval * min(2^k, 8) after the failed one.
C22_BackoffAfterFailures ==
    [][\A f \in HookFetches :
          (/\ hookFetch[f].pc # "fetching"
           /\ hookFetch'[f].pc = "fetching"
           /\ retryAttempts >= 1)
            => clock' - failedAt
                  >= pollingInterval * Min(Pow2(retryAttempts), BackoffCap)]_vars

\* C23: while fetches succeed, a stale `processing` lasts at most one polling
\* interval: a tick of the interval timer that finds a polled conversion
\* finished on the server and still `processing` in the store sends the batch
\* request that brings the terminal status in.
C23_TickFetchesTerminalStatus ==
    [][IntervalFire =>
          \A id \in activePolling :
             (Finished(conv[id].status) /\ conversions[id] = "processing")
               => \E r \in RefreshProcs :
                     /\ refresh[r].pc # "fetching"
                     /\ refresh'[r].pc = "fetching"
                     /\ id \in refresh'[r].ids]_vars

\* C24: concurrent fetchMultipleConversions calls for the same set of ids are
\* coalesced: at most one batch request per id set is in flight.
C24_OneRequestPerIdSet ==
    \A r, q \in RefreshProcs :
       (r # q /\ refresh[r].pc = "fetching" /\ refresh[q].pc = "fetching")
         => refresh[r].ids # refresh[q].ids

\* C26: the client never shows a status the server has not reached: whenever
\* the status held for an id in the store, or the one held by
\* useConversionStatus, changes, the new status is the one the conversions
\* row has by then (or the id was removed from the store).
C26_StatusComesFromServer ==
    [][/\ \A id \in ConvIds :
             conversions'[id] # conversions[id]
               => conversions'[id] \in {"absent", conv[id].status}
       /\ conversion' # conversion
            => conversion' = conv[conversionId].status]_vars

\* both the store and the hook hold the terminal status of the conversion
C26_Witness ==
    /\ conversions[conversionId] \in Terminal
    /\ conversion \in Terminal

\* the server finished the conversion early enough for the page to be watched
\* until a result cached before has expired
EarlyTime == PageLoadTime + MIN_POLLING_INTERVAL

\* C25: polling converges: with timers that fire and batch requests that are
\* answered, a polled conversion that is finished on the server is eventually
\* held in the store with that status and eventually leaves the polling set,
\* and once every polled conversion is finished the timer is eventually
\* cleared.
C25_PollingConverges ==
    /\ (/\ conversionId \in activePolling
        /\ Finished(conv[conversionId].status)
        /\ clock <= EarlyTime)
         ~> (conversions[conversionId] = conv[conversionId].status)
    /\ (/\ conversionId \in activePolling
        /\ Finished(conv[conversionId].status)
        /\ clock <= EarlyTime)
         ~> (conversionId \notin activePolling)
    /\ (/\ activePolling # {}
        /\ \A id \in activePolling : Finished(conv[id].status)
        /\ clock <= EarlyTime)
         ~> (pollingManager = NoTimer)

\* polling has converged after a result cached as `processing` had expired
C25_Witness ==
    /\ conversions[conversionId] \in Terminal
    /\ conversionId \notin activePolling
    /\ pollingManager = NoTimer
    /\ \E e \in requestCache : e.expires > PageLoadTime + 2 * CACHE_TTL

\* C27: for a conversion in processing the progress both status endpoints
\* return is below 100, whatever the file size and the time elapsed; 100 is
\* returned only for a completed conversion.
C27_ProcessingProgressBelow100 ==
    /\ probe.row.status = "processing"
         => probe.single.progress < 100 /\ probe.batch.progress < 100
    /\ (probe.single.progress = 100 \/ probe.batch.progress = 100)
         => probe.row.status = "completed"

\* a row in processing so long that both endpoints answer their cap
C27_Witness ==
    /\ probe.row.status = "processing"
    /\ probe.row.sinceStarted > estimatedTotal(probe.row.file_size)
    /\ probe.row.sinceStarted > estimatedTotalTime(probe.row.file_size)
    /\ probe.single.progress = 95
    /\ probe.batch.progress = 95

\* C28: the two status endpoints agree: for the same row at the same instant
\* they return the same status, progress and currentStage.
C28_EndpointsAgree ==
    probe.single = probe.batch

\* C29: status never moves backwards from terminal to processing: in every
\* interleaving of the submit request's update after the processor accepted
\* the job with the processor's deliveries, that update writes `processing`
\* only over `pending`, and a conversion a delivery has completed or failed
\* stays so.
C29_ProcessingOnlyOverPending ==
    [][\A s \in SubmitProcs :
          (spc[s] = "accepted" /\ spc'[s] = "done")
            => /\ conv'[ConvOf(s)].status = "processing"
                    => conv[ConvOf(s)].status = "pending"
               /\ conv[ConvOf(s)].status \in Terminal
                    => conv'[ConvOf(s)].status = conv[ConvOf(s)].status]_vars

\* C30: refillUserCredits sets the balance to the plan's monthly allocation:
\* in every interleaving with concurrent updateUserCredits calls, the write
\* of a refill that succeeds leaves the balance at the plan's credits.
C30_RefillSetsPlanCredits ==
    [][\A p \in AdjProcs :
          (/\ refill[p].pc = "called"
           /\ call[p].pc = "write"
           /\ call'[p].pc = "audit")
            => credits' = refill[p].plan]_vars

====
